---- MODULE Spec2Model ----
(***************************************************************************)
(* A model of simcrunner/simc.py: the argument algebra (SingleArg,         *)
(* KeyValueArg, Profile, JsonExport, HtmlExport, Arguments, ProfileSet),   *)
(* the HasArguments builder surface and the Simc runner with its history   *)
(* and its export on launch failure.                                        *)
(*                                                                         *)
(* Python values are modelled as follows.                                  *)
(*   str         a sequence of one-character strings                       *)
(*   Optional[x] <<>> for None, <<x>> for a value                          *)
(*   list        a sequence                                                *)
(*   object      a record with a cls field naming its class                *)
(*   the result of a call: a record [st, v, passed]; st is "ok" (v is the  *)
(*   returned list), "None" (the call returned None) or "raise" (the call  *)
(*   raised); passed is the list object handed to the call as it is after  *)
(*   the call.                                                             *)
(* os.path is modelled as posixpath (the model covers POSIX hosts).        *)
(***************************************************************************)
EXTENDS Integers, Sequences, FiniteSets, TLC

VARIABLES
    environ,        \* os.environ['SIMC_PATH']: <<>> when unset, <<value>>
    platform_system,\* platform.system()
    cwd,            \* os.getcwd(), used by os.path.abspath
    state,          \* "Unconstructed", "Configured" or "ConfigError"
    simc_path,      \* Simc.simc_path
    export_path,    \* Simc.export_path
    args,           \* Simc.args (HasArguments.args of the runner)
    history,        \* Simc.history
    files,          \* the file system: path -> <<>> (absent) or <<content>>
    default_args,   \* the shared default list object of each append_to
    last,           \* the last call made on the runner and what it did
    obj,            \* a stand-alone Arguments or ProfileSet object
    lastc           \* the last call made on obj and what it did

vars == <<environ, platform_system, cwd, state, simc_path, export_path, args,
          history, files, default_args, last, obj, lastc>>

runner_vars == <<environ, platform_system, state, simc_path, export_path,
                 args, history, files, default_args, last>>

----------------------------------------------------------------------------
(* Bounds of the model.                                                    *)

MaxArgs == 3        \* children held by the runner
MaxRuns == 2        \* run() calls on the runner
MaxCalls == 3       \* calls made on the runner after its construction
MaxObjArgs == 3     \* children held by the stand-alone object

----------------------------------------------------------------------------
(* Strings.                                                                *)

RECURSIVE Flatten(_)
Flatten(ss) == IF ss = <<>> THEN <<>> ELSE Head(ss) \o Flatten(Tail(ss))

\* str.endswith
endswith(s, suffix) ==
    /\ Len(suffix) <= Len(s)
    /\ SubSeq(s, Len(s) - Len(suffix) + 1, Len(s)) = suffix

\* str.startswith
startswith(s, prefix) ==
    /\ Len(prefix) <= Len(s)
    /\ SubSeq(s, 1, Len(prefix)) = prefix

\* c in s
contains(s, c) == \E i \in 1..Len(s) : s[i] = c

\* sep.join(parts)
RECURSIVE join(_, _)
join(sep, parts) ==
    IF parts = <<>> THEN <<>>
    ELSE IF Len(parts) = 1 THEN parts[1]
    ELSE parts[1] \o sep \o join(sep, Tail(parts))

\* s.split(sep) for a one-character sep
RECURSIVE split(_, _)
split(s, sep) ==
    IF \A i \in 1..Len(s) : s[i] # sep THEN <<s>>
    ELSE LET i == CHOOSE j \in 1..Len(s) :
                      s[j] = sep /\ \A k \in 1..(j - 1) : s[k] # sep
         IN <<SubSeq(s, 1, i - 1)>> \o split(SubSeq(s, i + 1, Len(s)), sep)

Digit(d) == <<"0", "1", "2", "3", "4", "5", "6", "7", "8", "9">>[d + 1]

\* str(n) for a non-negative int, as the f-string formats it
RECURSIVE int_str(_)
int_str(n) == IF n < 10 THEN <<Digit(n)>>
              ELSE int_str(n \div 10) \o <<Digit(n % 10)>>

\* bytes.decode('utf-8') of a byte string: ASCII bytes decode to their
\* characters and a byte that cannot start a UTF-8 sequence raises
\* UnicodeDecodeError.  <<>> stands for the raise.
Chr(b) == CASE b = 111 -> "o" [] b = 107 -> "k" [] b = 101 -> "e" [] OTHER -> "?"
decode_utf8(bytes) ==
    IF \E i \in 1..Len(bytes) : bytes[i] >= 248 THEN <<>>
    ELSE << [i \in 1..Len(bytes) |-> Chr(bytes[i])] >>

----------------------------------------------------------------------------
(* os.path (posixpath).                                                    *)

\* posixpath.join(a, b)
path_join(a, b) ==
    IF startswith(b, <<"/">>) THEN b
    ELSE IF a = <<>> \/ endswith(a, <<"/">>) THEN a \o b
    ELSE a \o <<"/">> \o b

\* the component loop of posixpath.normpath
RECURSIVE norm_comps(_, _, _)
norm_comps(comps, new_comps, initial_slashes) ==
    IF comps = <<>> THEN new_comps
    ELSE LET comp == Head(comps)
             n == Len(new_comps)
         IN IF comp = <<>> \/ comp = <<".">>
            THEN norm_comps(Tail(comps), new_comps, initial_slashes)
            ELSE IF \/ comp # <<".", ".">>
                    \/ (initial_slashes = 0 /\ n = 0)
                    \/ (n > 0 /\ new_comps[n] = <<".", ".">>)
            THEN norm_comps(Tail(comps), Append(new_comps, comp), initial_slashes)
            ELSE IF n > 0
            THEN norm_comps(Tail(comps), SubSeq(new_comps, 1, n - 1), initial_slashes)
            ELSE norm_comps(Tail(comps), new_comps, initial_slashes)

\* posixpath.normpath
normpath(path) ==
    IF path = <<>> THEN <<".">>
    ELSE LET initial_slashes ==
                 IF ~ startswith(path, <<"/">>) THEN 0
                 ELSE IF startswith(path, <<"/", "/">>)
                         /\ ~ startswith(path, <<"/", "/", "/">>) THEN 2
                 ELSE 1
             comps == norm_comps(split(path, "/"), <<>>, initial_slashes)
             joined == join(<<"/">>, comps)
             res == IF initial_slashes = 2 THEN <<"/", "/">> \o joined
                    ELSE IF initial_slashes = 1 THEN <<"/">> \o joined
                    ELSE joined
         IN IF res = <<>> THEN <<".">> ELSE res

\* posixpath.abspath
abspath(path) ==
    normpath(IF startswith(path, <<"/">>) THEN path ELSE path_join(cwd, path))

----------------------------------------------------------------------------
(* Objects.  Every object is a record over the same fields; a class uses   *)
(* the fields it declares and leaves the others at their blank value.      *)

Blank == [cls |-> "", s |-> <<>>, obj |-> <<>>, key |-> <<>>, isint |-> FALSE,
          n |-> 0, check_extension |-> FALSE, name |-> <<>>, args |-> <<>>]

\* a bare str handed to a constructor or to add_arg
StrObj(s) == [Blank EXCEPT !.cls = "str", !.s = s]

\* a bare int handed to add_arg: neither a str nor a SimcArg
IntObj(n) == [Blank EXCEPT !.cls = "int", !.isint = TRUE, !.n = n]

\* SimcArg(): an instance of the abstract base class
SimcArg == [Blank EXCEPT !.cls = "SimcArg"]

\* SingleArg(simc_arg) for a str simc_arg
SingleArg(simc_arg) == [Blank EXCEPT !.cls = "SingleArg", !.s = simc_arg]

\* SingleArg(o) for an object o that is not a str: simc_arg is the object
SingleArgOf(o) == [Blank EXCEPT !.cls = "SingleArg", !.obj = <<o>>]

\* KeyValueArg(key, arg); arg is a record [isint, n, s]: an int n or a str s
KeyValueArg(key, arg) ==
    [Blank EXCEPT !.cls = "KeyValueArg", !.key = key,
                  !.isint = arg.isint, !.n = arg.n, !.s = arg.s]

StrVal(s) == [isint |-> FALSE, n |-> 0, s |-> s]
IntVal(n) == [isint |-> TRUE, n |-> n, s |-> <<>>]

\* Profile(file_path, check_extension)
Profile(file_path, check_extension) ==
    [Blank EXCEPT !.cls = "Profile", !.s = file_path,
                  !.check_extension = check_extension]

\* JsonExport(file_path, check_extension)
JsonExport(file_path, check_extension) ==
    [Blank EXCEPT !.cls = "JsonExport", !.s = file_path,
                  !.check_extension = check_extension]

\* HtmlExport(file_path, check_extension)
HtmlExport(file_path, check_extension) ==
    [Blank EXCEPT !.cls = "HtmlExport", !.s = file_path,
                  !.check_extension = check_extension]

\* isinstance(arg, SingleArg)
SingleArgClasses == {"SingleArg", "KeyValueArg", "Profile", "JsonExport", "HtmlExport"}

\* the classes that define one append_to each (one default list per function)
AppendToOwners == {"SimcArg", "SingleArg", "Arguments", "ProfileSet"}

\* the class whose append_to an object of class c runs
append_to_owner(c) == IF c \in SingleArgClasses THEN "SingleArg" ELSE c

\* the class attribute EXTENSION
EXTENSION(c) ==
    CASE c = "Profile" -> <<".", "s", "i", "m", "c">>
      [] c = "JsonExport" -> <<".", "j", "s", "o", "n">>
      [] c = "HtmlExport" -> <<".", "h", "t", "m", "l">>

\* the class attribute key of the export classes
export_key(c) ==
    CASE c = "JsonExport" -> <<"j", "s", "o", "n", "2">>
      [] c = "HtmlExport" -> <<"h", "t", "m", "l">>

\* file_name appending a missing extension whatever check_extension is
file_name_always_checks(f) ==
    abspath(IF ~ endswith(f.s, EXTENSION(f.cls)) THEN f.s \o EXTENSION(f.cls) ELSE f.s)

\* File.file_name
file_name(f) ==
    LET file_ == IF f.check_extension /\ ~ endswith(f.s, EXTENSION(f.cls))
                 THEN f.s \o EXTENSION(f.cls)
                 ELSE f.s
    IN abspath(file_)

\* the token an object that is not a str stands for when it is used as one
ObjToken(o) == <<"<object>", o.cls>>

\* f'{arg}' for the arg of a KeyValueArg
format_arg(a) == IF a.isint THEN int_str(a.n) ELSE a.s

\* the simc_arg attribute or property of a SingleArg
simc_arg(a) ==
    CASE a.cls = "SingleArg" -> IF a.obj # <<>> THEN ObjToken(a.obj[1]) ELSE a.s
      [] a.cls = "KeyValueArg" -> a.key \o <<"=">> \o format_arg(a)
      [] a.cls = "Profile" -> file_name(a)
      [] a.cls \in {"JsonExport", "HtmlExport"} ->
             export_key(a.cls) \o <<"=">> \o file_name(a)

----------------------------------------------------------------------------
(* Rendering.                                                              *)

Ok(v, passed) == [st |-> "ok", v |-> v, passed |-> passed]
ReturnsNone(passed) == [st |-> "None", v |-> <<>>, passed |-> passed]
Raises(passed) == [st |-> "raise", v |-> <<>>, passed |-> passed]

\* ProfileSet.profile_name
profile_name(name) ==
    IF contains(name, " ") THEN <<"\"">> \o name \o <<"\"">> ELSE name

\* the loop of ProfileSet.append_to switching the operator per child node
\* and not per token: the operator stays = for every token
RECURSIVE profileset_loop_same_operator(_, _, _, _)
profileset_loop_same_operator(new_args, name, operator, toks) ==
    IF toks = <<>> THEN new_args
    ELSE profileset_loop_same_operator(
             Append(new_args,
                    <<"p", "r", "o", "f", "i", "l", "e", "s", "e", "t", ".">>
                        \o profile_name(name) \o operator \o Head(toks)),
             name, operator, Tail(toks))

\* the loop of ProfileSet.append_to over self.args_list
RECURSIVE profileset_loop(_, _, _, _)
profileset_loop(new_args, name, operator, toks) ==
    IF toks = <<>> THEN new_args
    ELSE profileset_loop(
             Append(new_args,
                    <<"p", "r", "o", "f", "i", "l", "e", "s", "e", "t", ".">>
                        \o profile_name(name) \o operator \o Head(toks)),
             name, <<"+", "=">>, Tail(toks))

RECURSIVE append_to(_, _), append_loop(_, _), args_list(_)

\* SingleArg.append_to(self, args): args + [self.simc_arg]
SingleArg_append_to(self, a) ==
    IF a.st # "ok" THEN Raises(a.v)
    ELSE Ok(a.v \o <<simc_arg(self)>>, a.v)

\* Arguments.append_to(self, args)
Arguments_append_to(self, a) ==
    IF a.st # "ok" THEN Raises(a.v)
    ELSE LET new_args == a.v
             r == append_loop(self.args, Ok(new_args, new_args))
         IN [r EXCEPT !.passed = a.v]

\* ProfileSet.append_to appending to args itself and not to a copy
ProfileSet_append_to_in_place(self, a) ==
    IF a.st # "ok" THEN Raises(a.v)
    ELSE LET l == args_list(self.args)
         IN IF l.st # "ok" THEN Raises(a.v)
            ELSE LET new_args == profileset_loop(a.v, self.name, <<"=">>, l.v)
                 IN Ok(new_args, new_args)

\* ProfileSet.append_to(self, args)
ProfileSet_append_to(self, a) ==
    IF a.st # "ok" THEN Raises(a.v)
    ELSE LET new_args == a.v
             l == args_list(self.args)
         IN IF l.st # "ok" THEN Raises(a.v)
            ELSE Ok(profileset_loop(new_args, self.name, <<"=">>, l.v), a.v)

\* SimcArg.append_to(self, args): pass
SimcArg_append_to(self, a) == ReturnsNone(a.v)

\* arg.append_to(args), dispatched on the class of arg; an object without
\* the method raises AttributeError
append_to(arg, a) ==
    CASE arg.cls \in SingleArgClasses -> SingleArg_append_to(arg, a)
      [] arg.cls = "Arguments" -> Arguments_append_to(arg, a)
      [] arg.cls = "ProfileSet" -> ProfileSet_append_to(arg, a)
      [] arg.cls = "SimcArg" -> SimcArg_append_to(arg, a)
      [] OTHER -> Raises(a.v)

\* for arg in items: res = arg.append_to(res)
append_loop(items, res) ==
    IF items = <<>> THEN res
    ELSE LET r == append_to(Head(items), res)
         IN IF r.st = "raise" THEN r ELSE append_loop(Tail(items), r)

\* HasArguments.args_list
args_list(items) == append_loop(items, Ok(<<>>, <<>>))

----------------------------------------------------------------------------
(* Building.                                                               *)

\* Arguments.add_arg on the list self.args
Arguments_add_arg(self_args, arg) ==
    IF arg.cls \in SingleArgClasses THEN Append(self_args, arg)
    ELSE IF arg.cls = "str" THEN Append(self_args, SingleArg(arg.s))
    ELSE Append(self_args, SingleArgOf(arg))

RECURSIVE Arguments_add_each(_, _), Arguments_add_kwargs(_, _)
\* for arg in args: self.add_arg(arg)
Arguments_add_each(self_args, pos) ==
    IF pos = <<>> THEN self_args
    ELSE Arguments_add_each(Arguments_add_arg(self_args, Head(pos)), Tail(pos))

\* for key, arg in kwargs.items(): self.add_arg(KeyValueArg(key, arg))
Arguments_add_kwargs(self_args, kwargs) ==
    IF kwargs = <<>> THEN self_args
    ELSE Arguments_add_kwargs(
             Arguments_add_arg(self_args,
                               KeyValueArg(Head(kwargs).key, Head(kwargs).arg)),
             Tail(kwargs))

\* Arguments(*args, **kwargs); kwargs is the sequence of its items
Arguments(pos, kwargs) ==
    [Blank EXCEPT !.cls = "Arguments",
                  !.args = Arguments_add_kwargs(Arguments_add_each(<<>>, pos), kwargs)]

\* HasArguments.add_arg on the list self.args
add_arg(self_args, arg) ==
    IF arg.cls = "str" THEN Append(self_args, SingleArg(arg.s))
    ELSE Append(self_args, arg)

RECURSIVE add_each(_, _)
\* for arg in args: self.add_arg(arg)
add_each(self_args, pos) ==
    IF pos = <<>> THEN self_args
    ELSE add_each(add_arg(self_args, Head(pos)), Tail(pos))

\* add_args adding the named parameters before the positional ones
add_args_kwargs_first(self_args, pos, kwargs) ==
    add_each(add_arg(self_args, Arguments(<<>>, kwargs)), pos)

\* HasArguments.add_args on the list self.args
add_args(self_args, pos, kwargs) ==
    add_arg(add_each(self_args, pos), Arguments(<<>>, kwargs))

\* HasArguments.set_args
set_args(pos, kwargs) == add_args(<<>>, pos, kwargs)

\* ProfileSet(name, *args, **kwargs)
ProfileSet(name, pos, kwargs) ==
    [Blank EXCEPT !.cls = "ProfileSet", !.name = name,
                  !.args = set_args(pos, kwargs)]

----------------------------------------------------------------------------
(* The runner.                                                             *)

\* the default of export_path in Simc.__init__
DEFAULT_EXPORT_PATH ==
    <<"s", "i", "m", "c", "r", "u", "n", "n", "e", "r", "_", "e", "x", "p",
      "o", "r", "t", ".", "s", "i", "m", "c">>

\* the test "is not None" in place of the truth value
truthy_not_none(opt) == opt # <<>>

\* the truth value of an Optional[str]: None and '' are false
truthy(opt) == opt # <<>> /\ opt[1] # <<>>

\* Simc.executable
executable ==
    LET ext == IF platform_system = "Windows" THEN <<".", "e", "x", "e">> ELSE <<>>
    IN path_join(simc_path, <<"s", "i", "m", "c">> \o ext)

\* the text Simc.export writes before the arguments
export_header(now) ==
    <<"#", " ", "S", "i", "m", "c", " ", "f", "i", "l", "e", " ", "g", "e",
      "n", "e", "r", "a", "t", "e", "d", " ", "b", "y", " ", "s", "i", "m",
      "c", "r", "u", "n", "n", "e", "r", "\n">>
    \o <<"#", " ", "C", "r", "e", "a", "t", "e", "d", ":", " ">> \o now \o <<"\n">>
    \o <<"#", " ", "W", "e", "b", "s", "i", "t", "e", ":", " ", "h", "t", "t",
         "p", "s", ":", "/", "/", "g", "i", "t", "h", "u", "b", ".", "c", "o",
         "m", "/", "s", "i", "m", "c", "m", "i", "n", "m", "a", "x", "/", "s",
         "i", "m", "c", "r", "u", "n", "n", "e", "r", "\n">>

\* export_lines writing the arguments on one line
export_lines_one_line(toks) == join(<<" ">>, toks) \o <<"\n">>

\* for arg in self.args_list: f.write(f'{arg}\n')
export_lines(toks) == Flatten([i \in 1..Len(toks) |-> toks[i] \o <<"\n">>])

\* Simc.export(file_path) on the file system fs.  fs_ok is whether the
\* directory and the file can be created; when they cannot, makedirs or open
\* raises OSError before anything is written.  The result is the file system
\* after the call and whether the call raised.
export(fs, file_path, fs_ok, now) ==
    LET path == IF truthy(file_path) THEN file_path[1] ELSE export_path
        l == args_list(args)
    IN IF ~ fs_ok THEN [fs |-> fs, raised |-> TRUE]
       ELSE IF l.st # "ok"
       THEN [fs |-> [fs EXCEPT ![path] = <<export_header(now)>>], raised |-> TRUE]
       ELSE [fs |-> [fs EXCEPT ![path] = <<export_header(now) \o export_lines(l.v)>>],
             raised |-> FALSE]

\* a History Record: the dict query of Simc.run; an absent key is <<>>
Query(q, returncode, output, error) ==
    [query |-> q, returncode |-> returncode, output |-> output, error |-> error]

----------------------------------------------------------------------------
(* The inputs of the runner's operations.                                  *)

A == <<"a">>
B == <<"b">>

\* values of the simc_path parameter and of SIMC_PATH
SimcPaths == { <<>>, << <<>> >>, << <<"/", "s">> >> }
Environs == { <<>>, << <<>> >>, << <<"/", "e">> >> }

\* values of the export_path parameter
ExportPaths == { <<>>, << <<"r">> >> }

\* values of the file_path parameter of export
ExportTargets == { <<>>, << <<"f">> >> }

FilePaths == {DEFAULT_EXPORT_PATH, <<"r">>, <<"f">>}

PlatformSystems == {"Linux", "Darwin"}
Cwds == { <<"/", "w">> }
ObjCwds == { <<"/", "w">>, <<"/">> }

\* str(datetime.now())
Nows == { <<"1">>, <<"2">> }

NoKwargs == <<>>
Kw1 == << [key |-> <<"i">>, arg |-> IntVal(10)] >>
Kw2 == << [key |-> <<"k">>, arg |-> StrVal(<<"v">>)], [key |-> <<"i">>, arg |-> IntVal(10)] >>

\* positional arguments given to set_args and add_args of the runner
RunnerPositional ==
    { <<>>,
      <<StrObj(A)>>,
      <<ProfileSet(<<"R", " ", "B">>, <<StrObj(A), KeyValueArg(B, IntVal(1))>>, NoKwargs)>>,
      <<JsonExport(<<"o", "/", "r">>, TRUE)>> }
RunnerKwargs == { NoKwargs, Kw1 }
NewKwargs == { NoKwargs, Kw1, Kw2 }

\* arguments given to add_arg of the runner: a str, an int (which is neither
\* a str nor a SimcArg) and an instance of the abstract SimcArg
RunnerArg == { StrObj(B), IntObj(7), SimcArg }

\* what the launched process does: it cannot be launched (Popen raises
\* OSError) or it runs and ends with a return code, stdout and stderr bytes
Launches ==
    { [started |-> FALSE, returncode |-> 0, out |-> <<>>, err |-> <<>>],
      [started |-> TRUE, returncode |-> 0, out |-> <<111, 107>>, err |-> <<>>],
      [started |-> TRUE, returncode |-> 1, out |-> <<>>, err |-> <<101>>],
      [started |-> TRUE, returncode |-> 0, out |-> <<111, 255>>, err |-> <<>>] }

----------------------------------------------------------------------------
(* The operations of the runner.                                           *)

\* the record of a call: op names the call, raised whether it raised, runs
\* counts the calls to run() so far, calls the calls of any kind, and the
\* other fields hold the inputs and results of the call; issued is the
\* argument vector of the last launch since the last set_args, add_args or
\* add_arg, and log the positional and named arguments of the calls that
\* built the stand-alone object
Call(op) ==
    [op |-> op, raised |-> FALSE, runs |-> last.runs, calls |-> last.calls + 1,
     pos |-> <<>>,
     kwargs |-> <<>>, arg |-> <<>>, path |-> <<>>, started |-> FALSE,
     run_list |-> <<>>, exported |-> FALSE, target |-> <<>>, result |-> <<>>,
     before |-> <<>>, issued |-> last.issued, log |-> <<>>]

NoCall ==
    [op |-> "", raised |-> FALSE, runs |-> 0, calls |-> 0, pos |-> <<>>,
     kwargs |-> <<>>, arg |-> <<>>, path |-> <<>>, started |-> FALSE,
     run_list |-> <<>>, exported |-> FALSE, target |-> <<>>, result |-> <<>>,
     before |-> <<>>, issued |-> <<>>, log |-> <<>>]

NoObj == [Blank EXCEPT !.cls = "None"]

\* before any object exists
Blank_state ==
    /\ state = "Unconstructed"
    /\ simc_path = <<>>
    /\ export_path = <<>>
    /\ args = <<>>
    /\ history = <<>>
    /\ files = [p \in FilePaths |-> <<>>]
    /\ default_args = [c \in AppendToOwners |-> <<>>]
    /\ last = NoCall
    /\ obj = NoObj
    /\ lastc = NoCall

\* the program before the runner is constructed
InitNew ==
    /\ environ \in Environs
    /\ platform_system \in PlatformSystems
    /\ cwd \in Cwds
    /\ Blank_state

\* the runner as Simc(simc_path='/s', export_path=xpath) constructs it
Init ==
    /\ environ = <<>>
    /\ platform_system \in PlatformSystems
    /\ cwd \in Cwds
    /\ state = "Configured"
    /\ simc_path = <<"/", "s">>
    /\ \E xpath \in ExportPaths :
           export_path = IF truthy(xpath) THEN xpath[1] ELSE DEFAULT_EXPORT_PATH
    /\ args = set_args(<<>>, NoKwargs)
    /\ history = <<>>
    /\ files = [p \in FilePaths |-> <<>>]
    /\ default_args = [c \in AppendToOwners |-> <<>>]
    /\ last = NoCall
    /\ obj = NoObj
    /\ lastc = NoCall

\* Simc(*args, simc_path=path, export_path=xpath, **kwargs)
Simc_init(path, xpath, pos, kwargs) ==
    /\ state = "Unconstructed"
    /\ IF ~ truthy(path) /\ environ = <<>>
       THEN /\ state' = "ConfigError"
            /\ last' = [Call("__init__") EXCEPT !.raised = TRUE, !.path = path]
            /\ UNCHANGED <<simc_path, export_path, args, history>>
       ELSE /\ state' = "Configured"
            /\ simc_path' = IF ~ truthy(path) THEN environ[1] ELSE path[1]
            /\ export_path' = IF truthy(xpath) THEN xpath[1] ELSE DEFAULT_EXPORT_PATH
            /\ history' = <<>>
            /\ args' = set_args(pos, kwargs)
            /\ last' = [Call("__init__") EXCEPT !.path = path, !.pos = pos,
                                               !.kwargs = kwargs]
    /\ UNCHANGED <<environ, platform_system, cwd, files, default_args, obj, lastc>>

\* Simc.set_args(*pos, **kwargs)
Simc_set_args(pos, kwargs) ==
    /\ state = "Configured"
    /\ last.calls < MaxCalls
    /\ Len(pos) + 1 <= MaxArgs
    /\ args' = set_args(pos, kwargs)
    /\ last' = [Call("set_args") EXCEPT !.pos = pos, !.kwargs = kwargs,
                                       !.issued = <<>>]
    /\ UNCHANGED <<environ, platform_system, cwd, state, simc_path, export_path,
                   history, files, default_args, obj, lastc>>

\* Simc.add_args(*pos, **kwargs)
Simc_add_args(pos, kwargs) ==
    /\ state = "Configured"
    /\ last.calls < MaxCalls
    /\ Len(args) + Len(pos) + 1 <= MaxArgs
    /\ args' = add_args(args, pos, kwargs)
    /\ last' = [Call("add_args") EXCEPT !.pos = pos, !.kwargs = kwargs,
                                       !.before = args, !.issued = <<>>]
    /\ UNCHANGED <<environ, platform_system, cwd, state, simc_path, export_path,
                   history, files, default_args, obj, lastc>>

\* Simc.add_arg(arg)
Simc_add_arg(arg) ==
    /\ state = "Configured"
    /\ last.calls < MaxCalls
    /\ Len(args) + 1 <= MaxArgs
    /\ args' = add_arg(args, arg)
    /\ last' = [Call("add_arg") EXCEPT !.arg = <<arg>>, !.before = args,
                                      !.issued = <<>>]
    /\ UNCHANGED <<environ, platform_system, cwd, state, simc_path, export_path,
                   history, files, default_args, obj, lastc>>

\* reading Simc.args_list
Simc_args_list ==
    /\ state = "Configured"
    /\ last.calls < MaxCalls
    /\ LET l == args_list(args)
       IN last' = [Call("args_list") EXCEPT !.raised = (l.st = "raise"),
                                            !.result = <<l>>]
    /\ UNCHANGED <<environ, platform_system, cwd, state, simc_path, export_path,
                   args, history, files, default_args, obj, lastc>>

\* self.args[i].append_to(): rendering a held child into the default list
Simc_child_append_to(i) ==
    /\ state = "Configured"
    /\ last.calls < MaxCalls
    /\ i \in 1..Len(args)
    /\ args[i].cls \in AppendToOwners \cup SingleArgClasses
    /\ LET c == append_to_owner(args[i].cls)
           r == append_to(args[i], Ok(default_args[c], default_args[c]))
       IN /\ default_args' = [default_args EXCEPT ![c] = r.passed]
          /\ last' = [Call("append_to") EXCEPT !.raised = (r.st = "raise"),
                                              !.result = <<r>>,
                                              !.before = default_args[c]]
    /\ UNCHANGED <<environ, platform_system, cwd, state, simc_path, export_path,
                   args, history, files, obj, lastc>>

\* Simc.export(file_path)
Simc_export(file_path, fs_ok, now) ==
    /\ state = "Configured"
    /\ last.calls < MaxCalls
    /\ LET e == export(files, file_path, fs_ok, now)
       IN /\ files' = e.fs
          /\ last' = [Call("export") EXCEPT
                         !.raised = e.raised,
                         !.target = <<IF truthy(file_path) THEN file_path[1]
                                      ELSE export_path>>]
    /\ UNCHANGED <<environ, platform_system, cwd, state, simc_path, export_path,
                   args, history, default_args, obj, lastc>>

\* Simc.run()
Simc_run(launch, fs_ok, now) ==
    /\ state = "Configured"
    /\ last.calls < MaxCalls
    /\ last.runs < MaxRuns
    /\ LET l == args_list(args)
           run_list == <<executable>> \o l.v
           q == join(<<" ">>, run_list)
           output == IF launch.out # <<>> THEN decode_utf8(launch.out) ELSE <<>>
           error == IF launch.err # <<>> THEN decode_utf8(launch.err) ELSE <<>>
           e == export(files, <<>>, fs_ok, now)
           call == [Call("run") EXCEPT !.runs = last.runs + 1]
       IN IF l.st # "ok"
          THEN \* [self.executable] + self.args_list raises before the try
               /\ last' = [call EXCEPT !.raised = TRUE]
               /\ UNCHANGED <<history, files>>
          ELSE IF launch.started
          THEN IF \/ (launch.out # <<>> /\ output = <<>>)
                  \/ (launch.err # <<>> /\ error = <<>>)
               THEN \* decode raises UnicodeDecodeError, which is no OSError
                    /\ last' = [call EXCEPT !.raised = TRUE, !.started = TRUE,
                                            !.run_list = <<run_list>>,
                                            !.issued = <<run_list>>]
                    /\ UNCHANGED <<history, files>>
               ELSE /\ history' = Append(history,
                            Query(q, <<launch.returncode>>, output, error))
                    /\ last' = [call EXCEPT !.started = TRUE,
                                            !.run_list = <<run_list>>,
                                            !.issued = <<run_list>>]
                    /\ UNCHANGED files
          ELSE \* Popen raises OSError: the handler calls self.export()
               /\ files' = e.fs
               /\ IF e.raised
                  THEN /\ last' = [call EXCEPT !.raised = TRUE,
                                               !.run_list = <<run_list>>,
                                               !.issued = <<run_list>>]
                       /\ UNCHANGED history
                  ELSE /\ history' = Append(history, Query(q, <<>>, <<>>, <<>>))
                       /\ last' = [call EXCEPT !.run_list = <<run_list>>,
                                               !.issued = <<run_list>>,
                                               !.exported = TRUE]
    /\ UNCHANGED <<environ, platform_system, cwd, state, simc_path, export_path,
                   args, default_args, obj, lastc>>

Next ==
    \/ \E pos \in RunnerPositional, kwargs \in RunnerKwargs : Simc_set_args(pos, kwargs)
    \/ \E pos \in RunnerPositional, kwargs \in RunnerKwargs : Simc_add_args(pos, kwargs)
    \/ \E arg \in RunnerArg : Simc_add_arg(arg)
    \/ Simc_args_list
    \/ \E i \in 1..MaxArgs : Simc_child_append_to(i)
    \/ \E file_path \in ExportTargets, fs_ok \in BOOLEAN, now \in Nows :
           Simc_export(file_path, fs_ok, now)
    \/ \E launch \in Launches, fs_ok \in BOOLEAN, now \in Nows :
           Simc_run(launch, fs_ok, now)

Spec == Init /\ [][Next]_vars

\* constructing a runner
NextNew ==
    \E path \in SimcPaths, xpath \in ExportPaths,
       pos \in RunnerPositional, kwargs \in NewKwargs :
           Simc_init(path, xpath, pos, kwargs)

SpecNew == InitNew /\ [][NextNew]_vars

----------------------------------------------------------------------------
(* A stand-alone object: a leaf, an Arguments or a ProfileSet that the     *)
(* caller builds and renders.                                              *)

\* file paths given to Profile, JsonExport and HtmlExport
InPaths ==
    { <<>>, <<"r">>, <<"o", "/", "r">>, <<"r", ".", "j", "s", "o", "n">>,
      <<"o", "/", "r", ".", "j", "s", "o", "n">>, <<"/", "t", "/", "r">>,
      <<"r", ".", "h", "t", "m", "l">>, <<".", ".", "/", "r">>,
      <<"r", ".", "j", "s", "o">>, <<"r", ".", "s", "i", "m", "c">> }

Leaves ==
    { SingleArg(A), KeyValueArg(B, IntVal(1)), KeyValueArg(<<"k">>, StrVal(<<"v">>)) }
    \cup { Profile(p, c) : p \in InPaths, c \in BOOLEAN }
    \cup { JsonExport(p, c) : p \in InPaths, c \in BOOLEAN }
    \cup { HtmlExport(p, c) : p \in InPaths, c \in BOOLEAN }

Names == { <<"p">>, <<"R", " ", "B">> }
ObjKwargs == { NoKwargs, Kw1, Kw2 }
Prefixes == { <<>>, << <<"x">> >> }

\* positional arguments of Arguments(...): str and SingleArg
ArgumentsPositional ==
    { <<>>,
      <<StrObj(A)>>,
      <<StrObj(A), KeyValueArg(B, IntVal(1))>>,
      <<JsonExport(<<"o", "/", "r">>, TRUE), StrObj(B)>>,
      <<Profile(<<"p">>, TRUE)>> }

\* arguments of Arguments.add_arg
ArgumentsArg ==
    { StrObj(B), KeyValueArg(B, IntVal(1)),
      HtmlExport(<<"r", ".", "h", "t", "m", "l">>, FALSE) }

\* positional arguments of ProfileSet(...), set_args and add_args: str and
\* SimcArg
OwnerPositional ==
    { <<>>,
      <<StrObj(A)>>,
      <<StrObj(A), SingleArg(B)>>,
      <<Arguments(<<StrObj(A), StrObj(B)>>, Kw1)>>,
      <<ProfileSet(<<"p">>, <<StrObj(A)>>, Kw1), StrObj(B)>>,
      <<JsonExport(<<"o", "/", "r">>, FALSE)>> }

\* arguments of HasArguments.add_arg
OwnerArg ==
    { StrObj(B), Arguments(<<StrObj(A), StrObj(B)>>, NoKwargs),
      ProfileSet(<<"q">>, <<StrObj(B)>>, NoKwargs) }

ObjCall(op) == [NoCall EXCEPT !.op = op, !.log = lastc.log]
Logged(pos, kwargs) == [pos |-> pos, kwargs |-> kwargs]

InitArgs ==
    /\ environ = <<>>
    /\ platform_system = "Linux"
    /\ cwd \in ObjCwds
    /\ Blank_state

\* constructing a leaf
New_leaf(leaf) ==
    /\ obj = NoObj
    /\ obj' = leaf
    /\ lastc' = [ObjCall("new") EXCEPT !.log = <<>>]
    /\ UNCHANGED <<runner_vars, cwd>>

\* obj = Arguments(*pos, **kwargs)
New_Arguments(pos, kwargs) ==
    /\ obj = NoObj
    /\ obj' = Arguments(pos, kwargs)
    /\ lastc' = [ObjCall("new") EXCEPT !.pos = pos, !.kwargs = kwargs,
                                      !.log = <<Logged(pos, kwargs)>>]
    /\ UNCHANGED <<runner_vars, cwd>>

\* obj.add_arg(arg) on an Arguments
Obj_Arguments_add_arg(arg) ==
    /\ obj.cls = "Arguments"
    /\ Len(obj.args) + 1 <= MaxObjArgs
    /\ obj' = [obj EXCEPT !.args = Arguments_add_arg(@, arg)]
    /\ lastc' = [ObjCall("add_arg") EXCEPT
                    !.arg = <<arg>>,
                    !.log = Append(lastc.log, Logged(<<arg>>, NoKwargs))]
    /\ UNCHANGED <<runner_vars, cwd>>

\* obj = ProfileSet(name, *pos, **kwargs)
New_ProfileSet(name, pos, kwargs) ==
    /\ obj = NoObj
    /\ Len(pos) + 1 <= MaxObjArgs
    /\ obj' = ProfileSet(name, pos, kwargs)
    /\ lastc' = [ObjCall("new") EXCEPT !.pos = pos, !.kwargs = kwargs,
                                      !.log = <<Logged(pos, kwargs)>>]
    /\ UNCHANGED <<runner_vars, cwd>>

\* obj.set_args(*pos, **kwargs) on a ProfileSet
Obj_set_args(pos, kwargs) ==
    /\ obj.cls = "ProfileSet"
    /\ Len(pos) + 1 <= MaxObjArgs
    /\ obj' = [obj EXCEPT !.args = set_args(pos, kwargs)]
    /\ lastc' = [ObjCall("set_args") EXCEPT !.pos = pos, !.kwargs = kwargs,
                                           !.before = obj.args,
                                           !.log = <<Logged(pos, kwargs)>>]
    /\ UNCHANGED <<runner_vars, cwd>>

\* obj.add_args(*pos, **kwargs) on a ProfileSet
Obj_add_args(pos, kwargs) ==
    /\ obj.cls = "ProfileSet"
    /\ Len(obj.args) + Len(pos) + 1 <= MaxObjArgs
    /\ obj' = [obj EXCEPT !.args = add_args(@, pos, kwargs)]
    /\ lastc' = [ObjCall("add_args") EXCEPT
                    !.pos = pos, !.kwargs = kwargs,
                    !.log = Append(lastc.log, Logged(pos, kwargs))]
    /\ UNCHANGED <<runner_vars, cwd>>

\* obj.add_arg(arg) on a ProfileSet
Obj_add_arg(arg) ==
    /\ obj.cls = "ProfileSet"
    /\ Len(obj.args) + 1 <= MaxObjArgs
    /\ obj' = [obj EXCEPT !.args = add_arg(@, arg)]
    /\ lastc' = [ObjCall("add_arg") EXCEPT
                    !.arg = <<arg>>,
                    !.log = Append(lastc.log, Logged(<<arg>>, NoKwargs))]
    /\ UNCHANGED <<runner_vars, cwd>>

\* obj.append_to(prefix)
Obj_append_to(prefix) ==
    /\ obj.cls # "None"
    /\ lastc' = [ObjCall("append_to") EXCEPT
                    !.before = prefix,
                    !.result = <<append_to(obj, Ok(prefix, prefix))>>]
    /\ UNCHANGED <<runner_vars, cwd, obj>>

\* reading obj.args_list on a ProfileSet
Obj_args_list ==
    /\ obj.cls = "ProfileSet"
    /\ lastc' = [ObjCall("args_list") EXCEPT !.result = <<args_list(obj.args)>>]
    /\ UNCHANGED <<runner_vars, cwd, obj>>

NextArgs ==
    \/ \E leaf \in Leaves : New_leaf(leaf)
    \/ \E pos \in ArgumentsPositional, kwargs \in ObjKwargs : New_Arguments(pos, kwargs)
    \/ \E arg \in ArgumentsArg : Obj_Arguments_add_arg(arg)
    \/ \E name \in Names, pos \in OwnerPositional, kwargs \in ObjKwargs :
           New_ProfileSet(name, pos, kwargs)
    \/ \E pos \in OwnerPositional, kwargs \in ObjKwargs : Obj_set_args(pos, kwargs)
    \/ \E pos \in OwnerPositional, kwargs \in ObjKwargs : Obj_add_args(pos, kwargs)
    \/ \E arg \in OwnerArg : Obj_add_arg(arg)
    \/ \E prefix \in Prefixes : Obj_append_to(prefix)
    \/ Obj_args_list

SpecArgs == InitArgs /\ [][NextArgs]_vars

----------------------------------------------------------------------------
(* Properties of the stand-alone object (SpecArgs).                        *)

\* the tokens one argument of a call stands for: a str is its own token and
\* a node renders alone into the empty list
tokens_of(x) == IF x.cls = "str" THEN <<x.s>> ELSE append_to(x, Ok(<<>>, <<>>)).v

\* key=value for each item of a mapping, in its iteration order
kwargs_tokens(kwargs) ==
    [i \in 1..Len(kwargs) |->
        kwargs[i].key \o <<"=">>
        \o (IF kwargs[i].arg.isint THEN int_str(kwargs[i].arg.n)
            ELSE kwargs[i].arg.s)]

\* the tokens of one logged call: its positional arguments, then its mapping
call_tokens(c) ==
    Flatten([i \in 1..Len(c.pos) |-> tokens_of(c.pos[i])]) \o kwargs_tokens(c.kwargs)

\* the flattened token list of obj
flattened(o) ==
    IF o.cls = "ProfileSet" THEN args_list(o.args) ELSE append_to(o, Ok(<<>>, <<>>))

C5_ProfileSetEntries ==
    (lastc.op = "append_to" /\ obj.cls = "ProfileSet") =>
        LET r == lastc.result[1]
            t == args_list(obj.args).v
            n == Len(t)
            k == Len(lastc.before)
            hasspace == \E j \in 1..Len(obj.name) : obj.name[j] = " "
            nm == IF hasspace THEN <<"\"">> \o obj.name \o <<"\"">> ELSE obj.name
            head == <<"p", "r", "o", "f", "i", "l", "e", "s", "e", "t", ".">> \o nm
        IN /\ r.st = "ok"
           /\ Len(r.v) = k + n
           /\ SubSeq(r.v, 1, k) = lastc.before
           /\ \A i \in 1..n :
                  r.v[k + i] = head \o (IF i = 1 THEN <<"=">> ELSE <<"+", "=">>) \o t[i]
           /\ n >= 1 =>
                  /\ Cardinality({i \in 1..n : startswith(r.v[k + i], head \o <<"=">>)}) = 1
                  /\ Cardinality({i \in 1..n : startswith(r.v[k + i], head \o <<"+", "=">>)}) = n - 1

\* C5 witness: a ProfileSet with a space in its name whose two children
\* flatten to more than two tokens has been rendered
C5_Witness ==
    /\ lastc.op = "append_to" /\ obj.cls = "ProfileSet"
    /\ contains(obj.name, " ")
    /\ Len(obj.args) = 2
    /\ Len(args_list(obj.args).v) >= 3
    /\ lastc.before # <<>>

----------------------------------------------------------------------------
(* Properties of the runner (Spec) and of its construction (SpecNew).      *)

\* C1 as claimed: every call to run() appends exactly one History Record, so
\* after k calls to run() the history has length k.
C1_OneRecordPerRun == Len(history) = last.runs

\* C2 as claimed: when the process cannot be launched, run() does not raise;
\* it writes the recovery file and appends a History Record holding the
\* invocation string and no exit code.
C2_LaunchFailureRecorded ==
    (last.op = "run" /\ last.run_list # <<>> /\ ~ last.started) =>
        /\ ~ last.raised
        /\ files[export_path] # <<>>
        /\ history # <<>>
        /\ history[Len(history)].query = join(<<" ">>, last.run_list[1])
        /\ history[Len(history)].returncode = <<>>

\* C3: after a launch failure whose recovery file was written, the file at
\* the fallback path is three lines starting with # followed by exactly the
\* tokens of the argument vector of the failed launch, one per line and in
\* the same order.
C3_RecoveryFile ==
    (last.op = "run" /\ last.exported) =>
        /\ files[export_path] # <<>>
        /\ LET lines == split(files[export_path][1], "\n")
               argv == Tail(last.run_list[1])
               n == Len(argv)
           IN /\ Len(lines) = 3 + n + 1
              /\ lines[Len(lines)] = <<>>
              /\ \A i \in 1..3 : lines[i] # <<>> /\ lines[i][1] = "#"
              /\ \A i \in 1..n : lines[3 + i] = argv[i]
              /\ argv = args_list(args).v

\* C3 witness: a recovery file holding at least two tokens was written by a
\* run whose launch failed
C3_Witness ==
    /\ last.op = "run" /\ last.exported /\ ~ last.started
    /\ Len(last.run_list[1]) >= 3
    /\ files[export_path] # <<>>

\* C8 as claimed: construction fails exactly when no explicit path is given
\* and the environment variable is not set; otherwise the stored root is the
\* explicit path if one was given, else the value of the variable.
C8_ConstructionAsClaimed ==
    last.op = "__init__" =>
        /\ (state = "ConfigError") <=> (last.path = <<>> /\ environ = <<>>)
        /\ state = "Configured" =>
               simc_path = IF last.path # <<>> THEN last.path[1] ELSE environ[1]

\* C8 amended: construction fails exactly when the explicit path is absent
\* or empty and the environment variable is not set; otherwise the stored
\* root is the explicit path if it is non-empty, else the value of the
\* variable.
C8_Construction ==
    last.op = "__init__" =>
        LET given == last.path # <<>> /\ last.path[1] # <<>>
        IN /\ (state = "ConfigError") <=> (~ given /\ environ = <<>>)
           /\ (state = "ConfigError") <=> last.raised
           /\ state = "Configured" =>
                  simc_path = IF given THEN last.path[1] ELSE environ[1]

\* C8 witness: a runner constructed with the empty string as explicit path
\* holds the value of the environment variable
C8_Witness ==
    /\ last.op = "__init__" /\ state = "Configured"
    /\ last.path = << <<>> >>
    /\ simc_path = <<"/", "e">>

\* C9 as claimed: when the child list holds an item that is neither a str
\* nor an Argument Node, flattening does not fail and yields the tokens of
\* every other child, in order.
C9_UnrecognizedSkipped ==
    (last.op = "args_list" /\ \E i \in 1..Len(args) : args[i].cls = "int") =>
        /\ ~ last.raised
        /\ last.result[1].st = "ok"
        /\ last.result[1].v = args_list(SelectSeq(args, LAMBDA x : x.cls # "int")).v

\* C10: run(), export and flattening leave the held child list and the
\* executable root unchanged, rendering leaves the list passed to it (the
\* shared default included) as it was, and a run that follows another with no
\* set or add between them issues the same argument vector.
C10_Frame ==
    [][ last'.op \in {"run", "export", "args_list", "append_to"} =>
            /\ args' = args
            /\ simc_path' = simc_path
            /\ default_args' = default_args
            /\ last'.op = "append_to" => last'.result[1].passed = last'.before
            /\ (last'.op = "run" /\ last.issued # <<>> /\ last'.run_list # <<>>) =>
                   last'.run_list = last.issued
      ]_vars

\* C10 witness: two runs after one set_args, the first with a failed launch
\* that exported, both issuing a vector with at least one argument
C10_Witness ==
    /\ last.op = "run" /\ last.runs = 2 /\ last.calls = 3
    /\ last.run_list # <<>> /\ Len(last.run_list[1]) >= 2
    /\ Len(history) = 2
    /\ history[1].returncode = <<>> /\ history[2].returncode # <<>>

====
